---- MODULE Spec2Model ----
(***************************************************************************)
(* Model of src/app.py: the POST /api/compare-faces handler                *)
(* (compare_faces), the candidate scan (compare_photo_and_array) and the   *)
(* per-candidate comparison (compare_photo_with_url), together with the    *)
(* temporary files they create in the shared temporary directory.          *)
(***************************************************************************)
EXTENDS Integers, Sequences, FiniteSets, TLC

(***************************************************************************)
(* Bounds of the model.                                                    *)
(***************************************************************************)
\* Largest length of a capturedImage string a request carries.
MaxImgLen == 5
\* Largest length of a databaseUrls list a request carries.
MaxUrls == 3
\* Number of request handlers (threads of the server).
NumRequests == 2

Reqs == 1..NumRequests

\* Candidate URL strings.
Urls == {"u1", "u2"}

\* Characters of a capturedImage string: "A" stands for a character of the
\* base64 alphabet, "=" is the pad, "," the data-URI separator and "*" an
\* ASCII character outside the base64 alphabet.
Chars == {"A", "=", ",", "*"}
B64Alphabet == {"A"}

SeqsUpTo(S, n) == UNION {[1..k -> S] : k \in 0..n}

None == "None"

\* The value of a path variable that is not set.
NoPath == <<"none", <<0, 0>>>>

(***************************************************************************)
(* JSON values of the request body.                                        *)
(***************************************************************************)
JStr(s) == [type |-> "str", val |-> s]
JList(s) == [type |-> "list", val |-> s]
JNum == [type |-> "num", val |-> <<>>]
JNull == [type |-> "null", val |-> <<>>]
JAbsent == [type |-> "absent", val |-> <<>>]

\* Python's len(x): defined for str and list, TypeError otherwise.
HasLen(v) == v.type \in {"str", "list"}
\* Python's `',' in x`: TypeError for a number or None.
SupportsIn(v) == v.type \in {"str", "list"}

\* ',' in captured_image_base64 (line 124), for a str.
HasComma(s) == \E i \in 1..Len(s) : s[i] = ","

FirstComma(s) == CHOOSE i \in 1..Len(s) : s[i] = "," /\ \A j \in 1..(i-1) : s[j] # ","

RECURSIVE UpToComma(_)
\* The longest prefix of s that holds no comma.
UpToComma(s) ==
    IF s = <<>> \/ Head(s) = "," THEN <<>>
    ELSE <<Head(s)>> \o UpToComma(Tail(s))

\* captured_image_base64.split(',')[1] (line 126): the text between the first
\* comma and the next one (or the end).
SplitSecond(s) == UpToComma(SubSeq(s, FirstComma(s) + 1, Len(s)))

\* Lines 124-126.
StripPrefix(s) == IF HasComma(s) THEN SplitSecond(s) ELSE s

RECURSIVE A2bBase64(_, _, _, _, _)
\* binascii.a2b_base64 in its default, non-strict mode, as base64.b64decode
\* calls it: characters outside the alphabet are skipped, a pad sequence that
\* completes a quad ends the parse, and an incomplete quad at the end is an
\* error.  The result is the number of bytes decoded, or -1 for binascii.Error.
A2bBase64(s, i, quad, pads, n) ==
    IF i > Len(s) THEN (IF quad # 0 THEN -1 ELSE n)
    ELSE IF s[i] = "=" THEN
        IF quad >= 2 /\ quad + pads + 1 >= 4 THEN n
        ELSE A2bBase64(s, i + 1, quad, IF quad >= 2 THEN pads + 1 ELSE pads, n)
    ELSE IF s[i] \notin B64Alphabet THEN A2bBase64(s, i + 1, quad, pads, n)
    ELSE IF quad = 0 THEN A2bBase64(s, i + 1, 1, 0, n)
    ELSE A2bBase64(s, i + 1, (quad + 1) % 4, 0, n + 1)

\* base64.b64decode(x) (line 136): TypeError (-1) for a value that is no str.
B64Decode(v) == IF v.type = "str" THEN A2bBase64(v.val, 1, 0, 0, 0) ELSE -1


(***************************************************************************)
(* Requests.  A body is the value request.json yields (line 101): an       *)
(* object with some of the two keys, an array whose elements may include   *)
(* the two names, or null.                                                 *)
(***************************************************************************)
Keys == {"capturedImage", "databaseUrls"}

CapturedValues == {JStr(s) : s \in SeqsUpTo(Chars, MaxImgLen)} \cup {JNum, JNull, JList(<<>>)}
UrlsValues == {JList(s) : s \in SeqsUpTo(Urls, MaxUrls)} \cup {JNum, JNull}

\* A body with the keys h: the value of a key that is absent is not there.
Body(k, h, c, d) ==
    [kind |-> k, has |-> h,
     capturedImage |-> IF k = "object" /\ "capturedImage" \in h THEN c ELSE JAbsent,
     databaseUrls |-> IF k = "object" /\ "databaseUrls" \in h THEN d ELSE JAbsent]

BodyKinds == {"object", "array", "null"}

\* The requests of the concurrent specification: well-formed objects with one
\* candidate, whose photo decodes ("AAAA") or does not ("A").
ConcCaptured == {JStr(<<"A", "A", "A", "A">>), JStr(<<"A">>)}
ConcUrls == {JList(<<"u1">>)}

\* What the remote side and the matcher do with one candidate: the download
\* raises a RequestException (timeout, connection error), answers with a status
\* other than 200, or answers 200 with an image that DeepFace.verify reports
\* verified, reports not verified, or rejects with an exception.
Outcome == {"reqexc", "non200", "verified", "unverified", "noface"}

\* What the summary of a request keeps of its body.
Summary(data) ==
    [kind |-> data.kind, has |-> data.has,
     capType |-> data.capturedImage.type,
     capEmpty |-> data.capturedImage.val = <<>>,
     capComma |-> data.capturedImage.type = "str" /\ HasComma(data.capturedImage.val),
     urlsType |-> data.databaseUrls.type,
     urlsEmpty |-> data.databaseUrls.val = <<>>]

NoSummary ==
    [kind |-> "none", has |-> {}, capType |-> "absent", capEmpty |-> TRUE,
     capComma |-> FALSE, urlsType |-> "absent", urlsEmpty |-> TRUE]

(***************************************************************************)
(* Responses (jsonify(...), status).                                       *)
(***************************************************************************)
NoResponse == [status |-> 0, matchFound |-> FALSE, fields |-> {}, matchedImageUrl |-> None, error |-> None]

\* Lines 104-107.
InvalidRequestResponse ==
    [status |-> 400, matchFound |-> FALSE, fields |-> {"matchFound", "error"},
     matchedImageUrl |-> None, error |-> "Invalid request data"]

\* Lines 118-121.
NoUrlsResponse ==
    [status |-> 400, matchFound |-> FALSE, fields |-> {"matchFound", "error"},
     matchedImageUrl |-> None, error |-> "No database URLs provided"]

DecodeFailureResponseAs500 ==
    [status |-> 500, matchFound |-> FALSE, fields |-> {"matchFound", "error"},
     matchedImageUrl |-> None, error |-> "exception"]

\* Lines 138-143.
DecodeFailureResponse ==
    [status |-> 400, matchFound |-> FALSE, fields |-> {"matchFound", "error"},
     matchedImageUrl |-> None, error |-> "Invalid base64 image data"]

\* Lines 156-160.
MatchResponse(url) ==
    [status |-> 200, matchFound |-> TRUE,
     fields |-> {"matchFound", "matchedImageUrl", "confidence"},
     matchedImageUrl |-> url, error |-> None]

NoMatchResponseAsError ==
    [status |-> 404, matchFound |-> FALSE, fields |-> {"matchFound", "error"},
     matchedImageUrl |-> None, error |-> "No matching face found in the database"]

\* Lines 164-167.
NoMatchResponse ==
    [status |-> 200, matchFound |-> FALSE, fields |-> {"matchFound", "message"},
     matchedImageUrl |-> None, error |-> None]

\* Lines 169-175.
ExceptionResponse ==
    [status |-> 500, matchFound |-> FALSE, fields |-> {"matchFound", "error"},
     matchedImageUrl |-> None, error |-> "exception"]

(***************************************************************************)
(* Helpers of the handler and of the scan.                                 *)
(***************************************************************************)
\* Python's truth value of request.json: None, {} and [] are false.
Truthy(data) == data.kind # "null" /\ data.has # {}

\* `k in data`: a key of an object, an element of an array.
Contains(k, data) == k \in data.has

MissingFieldsOnlyImage(data) == ~Truthy(data) \/ ~Contains("capturedImage", data)

\* The condition of line 103.
MissingFields(data) ==
    ~Truthy(data) \/ ~Contains("capturedImage", data) \/ ~Contains("databaseUrls", data)

\* data['capturedImage'], data['databaseUrls'] (lines 110-111) raise for a
\* body that is no object (TypeError) or lacks the key (KeyError).
Subscriptable(data) == data.kind = "object" /\ Keys \subseteq data.has

\* uuid.uuid4(): the k-th identifier drawn by handler r.  Identifiers never
\* repeat, within a handler or across handlers.
Uuid4(r, k) == <<r, k>>

TempCapturedPathFixed(u) == <<"temp_captured", <<0, 0>>>>

\* Line 131: temp_captured_<uuid>.jpg in the temporary directory.
TempCapturedPath(u) == <<"temp_captured", u>>

\* Line 39: temp_url_<uuid>.jpg in the temporary directory.
TempUrlPath(u) == <<"temp_url", u>>

VerifiedFlagTruthy(v) == TRUE

\* Line 65: result["verified"].
VerifiedFlag(v) == v = "verified"

StopsOnMatchNever(result) == FALSE

\* Lines 87-89: `if result: return image_url`.
StopsOnMatch(result) == result

NextIndexBreak(i, n) == n + 1

\* Line 83: the for loop moves to the next candidate.
NextIndex(i, n) == i + 1

\* DeepFace.verify(img1_path, img2_path, ...) (lines 53-59) on the files as they
\* are: it raises when an image file is missing or holds no image, and otherwise
\* does what the outcome of the candidate says.
DeepFaceVerify(files, img1, img2, outcome) ==
    IF img1 \notin DOMAIN files \/ img2 \notin DOMAIN files THEN "noface"
    ELSE IF files[img1].empty \/ files[img2].empty THEN "noface"
    ELSE outcome

\* The outcomes a candidate can have against the photo at `photo`: a photo file
\* that holds no bytes holds no face, so the matcher can only raise on it.
PossibleOutcomes(files, photo) ==
    IF photo \in DOMAIN files /\ files[photo].empty
    THEN {"reqexc", "non200", "noface"}
    ELSE Outcome

\* open(path, 'wb') followed by a write: the file exists afterwards and holds
\* what this handler wrote.
WriteFile(files, path, r, isEmpty) ==
    [p \in DOMAIN files \cup {path} |->
        IF p = path THEN [writer |-> r, empty |-> isEmpty] ELSE files[p]]

\* `if os.path.exists(path): os.remove(path)`.
RemoveIfExists(files, path) == [p \in DOMAIN files \ {path} |-> files[p]]

(***************************************************************************)
(* State.                                                                  *)
(***************************************************************************)
VARIABLES
    pc,          \* where each handler stands
    req,         \* summary of the body each handler received
    captured,    \* captured_image_base64 after lines 124-126
    urls,        \* database_urls
    env,         \* outcome of each candidate of the scan, by position
    idx,         \* position of the for loop of compare_photo_and_array
    tempFile,    \* temp_file_path
    tempUrl,     \* temp_url_file of the candidate in progress
    result,      \* DeepFace.verify's result, held until line 65
    matchUrl,    \* match_url
    response,    \* the response sent
    fs,          \* the files of the temporary directory
    uuids,       \* how many identifiers each handler has drawn
    fetchLog,    \* history: the positions fetched, in order
    matchLog,    \* history: the positions passed to the matcher, in order
    scanInvoked, \* history: compare_photo_and_array was called
    created      \* history: the files each handler created

vars == <<pc, req, captured, urls, env, idx, tempFile, tempUrl, result, matchUrl,
          response, fs, uuids, fetchLog, matchLog, scanInvoked, created>>

Init ==
    /\ pc = [r \in Reqs |-> "idle"]
    /\ req = [r \in Reqs |-> NoSummary]
    /\ captured = [r \in Reqs |-> JAbsent]
    /\ urls = [r \in Reqs |-> <<>>]
    /\ env = [r \in Reqs |-> <<>>]
    /\ idx = [r \in Reqs |-> 0]
    /\ tempFile = [r \in Reqs |-> NoPath]
    /\ tempUrl = [r \in Reqs |-> NoPath]
    /\ result = [r \in Reqs |-> None]
    /\ matchUrl = [r \in Reqs |-> None]
    /\ response = [r \in Reqs |-> NoResponse]
    /\ fs = <<>>
    /\ uuids = [r \in Reqs |-> 0]
    /\ fetchLog = [r \in Reqs |-> <<>>]
    /\ matchLog = [r \in Reqs |-> <<>>]
    /\ scanInvoked = [r \in Reqs |-> FALSE]
    /\ created = [r \in Reqs |-> {}]

\* The handler returns or raises: the response is sent.
Respond(r, resp) ==
    /\ pc' = [pc EXCEPT ![r] = "done"]
    /\ response' = [response EXCEPT ![r] = resp]

\* compare_faces, lines 99-131: read the body, validate it, strip the data-URI
\* prefix and name the temporary file.  A TypeError or KeyError on the way is
\* caught at line 169 and answered with 500.
Receive(r, kinds, caps, lists) ==
    /\ pc[r] = "idle"
    /\ \E k \in kinds, h \in SUBSET Keys, c \in caps, d \in lists :
      LET data == Body(k, h, c, d) IN
        /\ (k = "null" => h = {})
        /\ req' = [req EXCEPT ![r] = Summary(data)]
        /\ IF MissingFields(data) THEN
                /\ Respond(r, InvalidRequestResponse)
                /\ UNCHANGED <<captured, urls, tempFile, uuids>>
           ELSE IF ~Subscriptable(data) THEN
                /\ Respond(r, ExceptionResponse)
                /\ UNCHANGED <<captured, urls, tempFile, uuids>>
           ELSE IF ~HasLen(data.databaseUrls) THEN
                \* line 114: len(database_urls) raises TypeError
                /\ Respond(r, ExceptionResponse)
                /\ UNCHANGED <<captured, urls, tempFile, uuids>>
           ELSE IF Len(data.databaseUrls.val) = 0 THEN
                /\ Respond(r, NoUrlsResponse)
                /\ UNCHANGED <<captured, urls, tempFile, uuids>>
           ELSE IF ~SupportsIn(data.capturedImage) THEN
                \* line 124: `',' in captured_image_base64` raises TypeError
                /\ Respond(r, ExceptionResponse)
                /\ UNCHANGED <<captured, urls, tempFile, uuids>>
           ELSE
                /\ captured' = [captured EXCEPT ![r] =
                        IF data.capturedImage.type = "str"
                        THEN JStr(StripPrefix(data.capturedImage.val))
                        ELSE data.capturedImage]
                /\ urls' = [urls EXCEPT ![r] = data.databaseUrls.val]
                /\ uuids' = [uuids EXCEPT ![r] = @ + 1]
                /\ tempFile' = [tempFile EXCEPT ![r] = TempCapturedPath(Uuid4(r, uuids[r] + 1))]
                /\ pc' = [pc EXCEPT ![r] = "save"]
                /\ UNCHANGED response
    /\ UNCHANGED <<env, idx, tempUrl, result, matchUrl, fs, fetchLog, matchLog,
                   scanInvoked, created>>

\* compare_faces, lines 133-143: open the temporary file, decode the photo and
\* write it.  The file is opened before b64decode runs, so it exists (empty)
\* when the decode fails and the handler answers 400 from line 140.
SaveCaptured(r) ==
    /\ pc[r] = "save"
    /\ created' = [created EXCEPT ![r] = @ \cup {tempFile[r]}]
    /\ IF B64Decode(captured[r]) < 0 THEN
            /\ fs' = WriteFile(fs, tempFile[r], r, TRUE)
            /\ Respond(r, DecodeFailureResponse)
            /\ UNCHANGED captured
       ELSE
            /\ fs' = WriteFile(fs, tempFile[r], r, B64Decode(captured[r]) = 0)
            /\ captured' = [captured EXCEPT ![r] = JAbsent]
            /\ pc' = [pc EXCEPT ![r] = "call"]
            /\ UNCHANGED response
    /\ UNCHANGED <<req, urls, env, idx, tempFile, tempUrl, result, matchUrl, uuids,
                   fetchLog, matchLog, scanInvoked>>

\* compare_faces, line 146: compare_photo_and_array is called.  What the remote
\* side and the matcher will do with each candidate of this scan is fixed here.
BeginScan(r) ==
    /\ pc[r] = "call"
    /\ \E e \in [1..Len(urls[r]) -> PossibleOutcomes(fs, tempFile[r])] :
            env' = [env EXCEPT ![r] = e]
    /\ idx' = [idx EXCEPT ![r] = 1]
    /\ scanInvoked' = [scanInvoked EXCEPT ![r] = TRUE]
    /\ pc' = [pc EXCEPT ![r] = "scan"]
    /\ UNCHANGED <<req, captured, urls, tempFile, tempUrl, result, matchUrl, response,
                   fs, uuids, fetchLog, matchLog, created>>

\* compare_photo_and_array, lines 83-86 and 95, and compare_photo_with_url,
\* line 39: take the next candidate and name its temporary file, or return None
\* when the list is exhausted.
LoopHead(r) ==
    /\ pc[r] = "scan"
    /\ IF idx[r] > Len(urls[r]) THEN
            /\ matchUrl' = [matchUrl EXCEPT ![r] = None]
            /\ pc' = [pc EXCEPT ![r] = "cleanup"]
            /\ UNCHANGED <<tempUrl, uuids>>
       ELSE
            /\ uuids' = [uuids EXCEPT ![r] = @ + 1]
            /\ tempUrl' = [tempUrl EXCEPT ![r] = TempUrlPath(Uuid4(r, uuids[r] + 1))]
            /\ pc' = [pc EXCEPT ![r] = "fetch"]
            /\ UNCHANGED matchUrl
    /\ UNCHANGED <<req, captured, urls, env, idx, tempFile, result, response, fs,
                   fetchLog, matchLog, scanInvoked, created>>

\* compare_photo_with_url returned False (lines 46, 71, 76, or 65 with an
\* unverified result): lines 90-91, and the loop goes on.
ReturnFalse(r) ==
    /\ idx' = [idx EXCEPT ![r] = NextIndex(idx[r], Len(urls[r]))]
    /\ pc' = [pc EXCEPT ![r] = "scan"]
    /\ tempUrl' = [tempUrl EXCEPT ![r] = NoPath]
    /\ UNCHANGED matchUrl

\* compare_photo_with_url returned True: lines 87-89.
ReturnTrue(r) ==
    IF StopsOnMatch(TRUE) THEN
        /\ matchUrl' = [matchUrl EXCEPT ![r] = urls[r][idx[r]]]
        /\ pc' = [pc EXCEPT ![r] = "cleanup"]
        /\ tempUrl' = [tempUrl EXCEPT ![r] = NoPath]
        /\ UNCHANGED idx
    ELSE ReturnFalse(r)

\* compare_photo_with_url, lines 43-46 and 67-71: requests.get.  A
\* RequestException removes the temporary file if it exists and returns False;
\* a status other than 200 returns False.
Fetch(r) ==
    /\ pc[r] = "fetch"
    /\ fetchLog' = [fetchLog EXCEPT ![r] = Append(@, idx[r])]
    /\ IF env[r][idx[r]] = "reqexc" THEN
            /\ fs' = RemoveIfExists(fs, tempUrl[r])
            /\ ReturnFalse(r)
       ELSE IF env[r][idx[r]] = "non200" THEN
            /\ ReturnFalse(r)
            /\ UNCHANGED fs
       ELSE
            /\ pc' = [pc EXCEPT ![r] = "write"]
            /\ UNCHANGED <<idx, tempUrl, matchUrl, fs>>
    /\ UNCHANGED <<req, captured, urls, env, tempFile, result, response, uuids,
                   matchLog, scanInvoked, created>>

\* compare_photo_with_url, lines 49-50: save the downloaded image.
WriteUrlFile(r) ==
    /\ pc[r] = "write"
    /\ fs' = WriteFile(fs, tempUrl[r], r, FALSE)
    /\ created' = [created EXCEPT ![r] = @ \cup {tempUrl[r]}]
    /\ pc' = [pc EXCEPT ![r] = "verify"]
    /\ UNCHANGED <<req, captured, urls, env, idx, tempFile, tempUrl, result, matchUrl,
                   response, uuids, fetchLog, matchLog, scanInvoked>>

\* compare_photo_with_url, lines 53-59 and 73-76: DeepFace.verify.  When it
\* raises, control passes to the outer handler, which returns False without
\* removing the temporary file.
Verify(r) ==
    /\ pc[r] = "verify"
    /\ matchLog' = [matchLog EXCEPT ![r] = Append(@, idx[r])]
    /\ LET v == DeepFaceVerify(fs, tempFile[r], tempUrl[r], env[r][idx[r]]) IN
        IF v = "noface" THEN
            /\ ReturnFalse(r)
            /\ UNCHANGED result
        ELSE
            /\ result' = [result EXCEPT ![r] = v]
            /\ pc' = [pc EXCEPT ![r] = "unlink"]
            /\ UNCHANGED <<idx, tempUrl, matchUrl>>
    /\ UNCHANGED <<req, captured, urls, env, tempFile, response, fs, uuids, fetchLog,
                   scanInvoked, created>>

\* compare_photo_with_url, lines 62-65: remove the temporary file and return
\* result["verified"].
RemoveUrlFile(r) ==
    /\ pc[r] = "unlink"
    /\ fs' = RemoveIfExists(fs, tempUrl[r])
    /\ result' = [result EXCEPT ![r] = None]
    /\ IF VerifiedFlag(result[r]) THEN ReturnTrue(r) ELSE ReturnFalse(r)
    /\ UNCHANGED <<req, captured, urls, env, tempFile, response, uuids, fetchLog,
                   matchLog, scanInvoked, created>>

\* compare_faces, lines 149-167: remove the captured photo and answer.
Cleanup(r) ==
    /\ pc[r] = "cleanup"
    /\ fs' = RemoveIfExists(fs, tempFile[r])
    /\ Respond(r, IF matchUrl[r] # None THEN MatchResponse(matchUrl[r]) ELSE NoMatchResponse)
    /\ UNCHANGED <<req, captured, urls, env, idx, tempFile, tempUrl, result, matchUrl,
                   uuids, fetchLog, matchLog, scanInvoked, created>>

\* No other handler has started.  The handlers run the same code, so the one
\* request of the sequential specification is given to the first of them.
Alone(r) == r = 1 /\ \A s \in Reqs \ {r} : pc[s] = "idle"

\* A request arrives while no other is being handled.
ReceiveAlone(r) == Alone(r) /\ Receive(r, BodyKinds, CapturedValues, UrlsValues)

\* One request handled in isolation, over every body.
Next ==
    \E r \in Reqs :
        \/ ReceiveAlone(r)
        \/ SaveCaptured(r)
        \/ BeginScan(r)
        \/ LoopHead(r)
        \/ Fetch(r)
        \/ WriteUrlFile(r)
        \/ Verify(r)
        \/ RemoveUrlFile(r)
        \/ Cleanup(r)

Spec == Init /\ [][Next]_vars

\* Requests handled concurrently, their steps interleaved.
NextConc ==
    \E r \in Reqs :
        \/ Receive(r, {"object"}, ConcCaptured, ConcUrls)
        \/ SaveCaptured(r)
        \/ BeginScan(r)
        \/ LoopHead(r)
        \/ Fetch(r)
        \/ WriteUrlFile(r)
        \/ Verify(r)
        \/ RemoveUrlFile(r)
        \/ Cleanup(r)

SpecConc == Init /\ [][NextConc]_vars

(***************************************************************************)
(* Properties.                                                             *)
(***************************************************************************)
Finished(r) == pc[r] = "done"

\* compare_photo_and_array has returned.
ScanReturned(r) == scanInvoked[r] /\ pc[r] \in {"cleanup", "done"}

\* The positions whose download succeeds and whose verdict is verified.
Matching(r) == {i \in 1..Len(urls[r]) : env[r][i] = "verified"}

Smallest(S) == CHOOSE i \in S : \A j \in S : i <= j

\* The candidate fails: request exception, non-200 status or matcher error.
Fails(o) == o \in {"reqexc", "non200", "noface"}

Range(s) == {s[i] : i \in 1..Len(s)}

CapturedFiles(r) == {p \in created[r] : p[1] = "temp_captured"}
UrlFiles(r) == {p \in created[r] : p[1] = "temp_url"}

\* C1: compare_photo_and_array returns the URL at the smallest position whose
\* download succeeds and whose verdict is verified, whatever the candidates
\* after it are, and None exactly when there is no such position.
C1_FirstMatchWins ==
    \A r \in Reqs :
        ScanReturned(r) =>
            /\ (Matching(r) = {} <=> matchUrl[r] = None)
            /\ (Matching(r) # {} => matchUrl[r] = urls[r][Smallest(Matching(r))])

\* A scan returned the second of three candidates although the third verifies
\* too and is another URL.
C1_Witness ==
    \E r \in Reqs :
        /\ Finished(r) /\ scanInvoked[r] /\ Len(urls[r]) = 3
        /\ env[r][1] = "unverified" /\ env[r][2] = "verified" /\ env[r][3] = "verified"
        /\ urls[r][3] # urls[r][2]
        /\ matchUrl[r] = urls[r][2]

\* C2: when the first N-1 candidates fail (request exception, non-200 status or
\* matcher error) and the N-th downloads and verifies, the scan fetches the
\* N-th candidate and returns it, and the response reports it with status 200.
C2_FailureIsolation ==
    \A r \in Reqs :
        ScanReturned(r) =>
            \A n \in 1..Len(urls[r]) :
                (env[r][n] = "verified" /\ \A j \in 1..(n - 1) : Fails(env[r][j])) =>
                    /\ n \in Range(fetchLog[r])
                    /\ n \in Range(matchLog[r])
                    /\ matchUrl[r] = urls[r][n]
                    /\ (Finished(r) => response[r] = MatchResponse(urls[r][n]))

\* A request exception and a matcher error came before the match.
C2_Witness ==
    \E r \in Reqs :
        /\ Finished(r) /\ scanInvoked[r] /\ Len(urls[r]) = 3
        /\ env[r][1] = "reqexc" /\ env[r][2] = "noface" /\ env[r][3] = "verified"
        /\ response[r].status = 200 /\ response[r].matchedImageUrl = urls[r][3]

\* C3: once a request has been answered, the captured-image file it created
\* no longer exists.
C3_CapturedFileRemoved ==
    \A r \in Reqs :
        Finished(r) => \A p \in CapturedFiles(r) : p \notin DOMAIN fs

\* C4: whenever compare_photo_with_url has returned, the candidate file it
\* created no longer exists.
C4_UrlFileRemoved ==
    \A r \in Reqs :
        pc[r] \in {"scan", "cleanup", "done"} => \A p \in UrlFiles(r) : p \notin DOMAIN fs

\* The body is an object that lacks one of the two keys or carries an empty
\* databaseUrls list.
LacksFields(r) ==
    /\ req[r].kind = "object"
    /\ \/ "capturedImage" \notin req[r].has
       \/ "databaseUrls" \notin req[r].has
       \/ (req[r].urlsType = "list" /\ req[r].urlsEmpty)

MalformedFields(r) ==
    /\ req[r].kind = "object"
    /\ \/ /\ "capturedImage" \in req[r].has
          /\ (req[r].capType # "str" \/ req[r].capEmpty)
       \/ /\ "databaseUrls" \in req[r].has
          /\ (req[r].urlsType # "list" \/ req[r].urlsEmpty)

\* C6: a request whose capturedImage is present but is not a non-empty string,
\* or whose databaseUrls is present but is not a non-empty sequence, is answered
\* 400 with an error message, and the scan is not invoked for it.
C6_MalformedFieldsRejected ==
    \A r \in Reqs :
        MalformedFields(r) =>
            /\ ~scanInvoked[r]
            /\ (Finished(r) => (response[r].status = 400 /\ "error" \in response[r].fields))

C8_NoMatchIsSuccess ==
    \A r \in Reqs :
        (Finished(r) /\ scanInvoked[r]) =>
            /\ response[r].status = 200
            /\ "error" \notin response[r].fields
            /\ (Matching(r) = {} =>
                    /\ ~response[r].matchFound
                    /\ response[r].fields = {"matchFound", "message"})

\* A download failure, a matcher error and a non-match in one scan.
C8_Witness ==
    \E r \in Reqs :
        /\ Finished(r) /\ scanInvoked[r] /\ Len(urls[r]) = 3
        /\ env[r][1] = "non200" /\ env[r][2] = "noface" /\ env[r][3] = "unverified"
        /\ response[r] = NoMatchResponse

\* C9: the positions of a scan are fetched in list order, each at most once;
\* the matcher is invoked only for a fetched position whose download returned
\* 200, in order and at most once each; and no position after one the matcher
\* verified is fetched or passed to the matcher.
C9_SequentialScan ==
    \A r \in Reqs :
        /\ \A j \in 1..Len(fetchLog[r]) : fetchLog[r][j] = j
        /\ Len(fetchLog[r]) <= Len(urls[r])
        /\ \A j \in 1..Len(matchLog[r]) :
                /\ matchLog[r][j] \in Range(fetchLog[r])
                /\ ~(env[r][matchLog[r][j]] \in {"reqexc", "non200"})
                /\ \A k \in 1..(j - 1) : matchLog[r][k] < matchLog[r][j]
        /\ \A i \in Range(matchLog[r]) :
                env[r][i] = "verified" =>
                    /\ \A j \in Range(fetchLog[r]) : j <= i
                    /\ \A j \in Range(matchLog[r]) : j <= i

\* A scan of three candidates stopped at the second, which verified, after the
\* first answered with a status other than 200.
C9_Witness ==
    \E r \in Reqs :
        /\ Finished(r) /\ scanInvoked[r] /\ Len(urls[r]) = 3
        /\ env[r][1] = "non200" /\ env[r][2] = "verified"
        /\ fetchLog[r] = <<1, 2>> /\ matchLog[r] = <<2>>

InFlight(r) == pc[r] \notin {"idle", "done"}

\* C10: under every interleaving, no two handlers in flight hold the same
\* temporary file name; every file was written by the handler that created it
\* and by no other; and from the moment a handler has saved its photo until it
\* removes it, as while the matcher runs, the photo exists and is the handler's
\* own, and so is the candidate file while the matcher reads it.
C10_ExclusiveFiles ==
    /\ \A r, s \in Reqs :
        (r # s /\ InFlight(r) /\ InFlight(s)) =>
            /\ tempFile[r] # tempFile[s]
            /\ (tempUrl[r] # NoPath => tempUrl[r] # tempUrl[s])
            /\ tempFile[r] # tempUrl[s]
    /\ \A p \in DOMAIN fs :
        /\ p \in created[fs[p].writer]
        /\ \A s \in Reqs \ {fs[p].writer} : p \notin created[s]
    /\ \A r \in Reqs :
        /\ pc[r] \in {"call", "scan", "fetch", "write", "verify", "unlink", "cleanup"} =>
                (tempFile[r] \in DOMAIN fs /\ fs[tempFile[r]].writer = r)
        /\ pc[r] \in {"verify", "unlink"} =>
                (tempUrl[r] \in DOMAIN fs /\ fs[tempUrl[r]].writer = r)

\* Two handlers are at the matcher at the same time.
C10_Witness ==
    \E r, s \in Reqs :
        /\ r # s /\ pc[r] = "verify" /\ pc[s] = "verify"
        /\ tempFile[r] \in DOMAIN fs /\ tempFile[s] \in DOMAIN fs
====
